---- MODULE Spec2Model ----
(***************************************************************************)
(* A model of src/src/lib.rs (best-poker-hand): parse_card, profile_hand,  *)
(* determine_hand_type with its tie-breaker helpers, parse_hand and        *)
(* winning_hands.                                                          *)
(*                                                                         *)
(* A Rust &str is modelled as a record [ptr, chars]: ptr identifies the    *)
(* reference (the position of the string in the caller's slice) and chars  *)
(* is the text, a sequence of one-character strings.  Comparison of        *)
(* strings looks at chars only, exactly as Ord for str does.               *)
(*                                                                         *)
(* A function that can panic returns a record with ok = FALSE.             *)
(***************************************************************************)
EXTENDS Integers, Sequences, FiniteSets, TLC

VARIABLES
    pc,          \* position of the modelled call: "start", then one label per step
    tok,         \* SpecCard: the card token handed to parse_card
    card_out,    \* SpecCard: what parse_card returned
    hand_in,     \* SpecHand: the &str handed to parse_hand
    iter1,       \* SpecHand: iteration order of of_a_kinds in the first run
    iter2,       \* SpecHand: iteration order of of_a_kinds in the second run
    parsed,      \* SpecHand: Hand of the first run; SpecCompare: the two Hands
    reparsed,    \* SpecHand: Hand of the second run
    hands_in,    \* Spec, SpecCompare: the slice handed to winning_hands
    result       \* Spec: what winning_hands returned

vars == <<pc, tok, card_out, hand_in, iter1, iter2, parsed, reparsed, hands_in, result>>

----------------------------------------------------------------------------
(* Program constants *)

ACE_VALUE == 14
KING_VALUE == 13
QUEEN_VALUE == 12
JACK_VALUE == 11

\* enum HandType, in declaration order: derive(Ord) compares discriminants
HighCard == 0
OnePair == 1
TwoPair == 2
ThreeOfAKind == 3
Straight == 4
Flush == 5
FullHouse == 6
FourOfAKind == 7
StraightFlush == 8

\* enum Suit
Suit == {"Spade", "Club", "Heart", "Diamond"}

\* u8::MAX, the largest value parse::<u8>() accepts
U8Max == 255

----------------------------------------------------------------------------
(* Bounds of the model *)

\* longest card token enumerated for parse_card
MaxTokenLen == 3
\* longest slice handed to winning_hands
MaxHands == 3
\* highest rank of the hands compared pairwise (ranks 2..MaxCmpRank)
MaxCmpRank == 6

----------------------------------------------------------------------------
(* Strings *)

\* the byte of each character the model uses (str compares bytewise)
CharCode(c) ==
    CASE c = " " -> 32
      [] c = "+" -> 43
      [] c = "0" -> 48
      [] c = "1" -> 49
      [] c = "2" -> 50
      [] c = "3" -> 51
      [] c = "4" -> 52
      [] c = "5" -> 53
      [] c = "6" -> 54
      [] c = "7" -> 55
      [] c = "8" -> 56
      [] c = "9" -> 57
      [] c = "A" -> 65
      [] c = "C" -> 67
      [] c = "D" -> 68
      [] c = "H" -> 72
      [] c = "J" -> 74
      [] c = "K" -> 75
      [] c = "Q" -> 81
      [] c = "S" -> 83
      [] c = "X" -> 88

Digits == {"0", "1", "2", "3", "4", "5", "6", "7", "8", "9"}

DigitValue(c) == CharCode(c) - 48

\* <, = or > as -1, 0, 1
IntCmp(a, b) == IF a < b THEN -1 ELSE IF a > b THEN 1 ELSE 0

\* Ord for Vec<u8>: lexicographic, a proper prefix is smaller
RECURSIVE VecCmp(_, _)
VecCmp(a, b) ==
    IF a = <<>> /\ b = <<>> THEN 0
    ELSE IF a = <<>> THEN -1
    ELSE IF b = <<>> THEN 1
    ELSE IF Head(a) # Head(b) THEN IntCmp(Head(a), Head(b))
    ELSE VecCmp(Tail(a), Tail(b))

\* Ord for str: lexicographic on the bytes
RECURSIVE StrCmp(_, _)
StrCmp(a, b) ==
    IF a = <<>> /\ b = <<>> THEN 0
    ELSE IF a = <<>> THEN -1
    ELSE IF b = <<>> THEN 1
    ELSE IF Head(a) # Head(b) THEN IntCmp(CharCode(Head(a)), CharCode(Head(b)))
    ELSE StrCmp(Tail(a), Tail(b))

\* the decimal value of a non-empty sequence of digits
RECURSIVE DecimalValue(_)
DecimalValue(s) ==
    IF s = <<>> THEN 0
    ELSE 10 * DecimalValue(SubSeq(s, 1, Len(s) - 1)) + DigitValue(s[Len(s)])

\* str::parse::<u8>(): -1 stands for Err.  An optional leading "+", then one
\* or more decimal digits, and a value of at most 255.
ParseU8(s) ==
    LET digits == IF s # <<>> /\ s[1] = "+" THEN Tail(s) ELSE s
    IN  IF digits = <<>> THEN -1
        ELSE IF \E i \in 1..Len(digits) : digits[i] \notin Digits THEN -1
        ELSE IF DecimalValue(digits) > U8Max THEN -1
        ELSE DecimalValue(digits)

\* str::split_whitespace(): the maximal runs of non-whitespace characters
RECURSIVE SplitFrom(_, _, _)
SplitFrom(s, cur, acc) ==
    IF s = <<>> THEN (IF cur = <<>> THEN acc ELSE Append(acc, cur))
    ELSE IF Head(s) = " "
         THEN SplitFrom(Tail(s), <<>>, IF cur = <<>> THEN acc ELSE Append(acc, cur))
         ELSE SplitFrom(Tail(s), Append(cur, Head(s)), acc)

SplitWhitespace(s) == SplitFrom(s, <<>>, <<>>)

----------------------------------------------------------------------------
(* parse_card *)

\* a panic of parse_card
CardPanic == [ok |-> FALSE, value |-> 0, suit |-> "none"]

parse_card(card_str) ==
    IF card_str = <<>> THEN CardPanic
    ELSE
    LET suit_char == card_str[Len(card_str)]
        rest == SubSeq(card_str, 1, Len(card_str) - 1)
        suit == CASE suit_char = "C" -> "Club"
                  [] suit_char = "S" -> "Spade"
                  [] suit_char = "H" -> "Heart"
                  [] suit_char = "D" -> "Diamond"
                  [] OTHER -> "none"
        value == IF ParseU8(rest) # -1 THEN ParseU8(rest)
                 ELSE IF rest = <<>> THEN -1
                 ELSE CASE rest[1] = "A" -> ACE_VALUE
                        [] rest[1] = "K" -> KING_VALUE
                        [] rest[1] = "Q" -> QUEEN_VALUE
                        [] rest[1] = "J" -> JACK_VALUE
                        [] OTHER -> -1
    IN  IF suit = "none" \/ value = -1 THEN CardPanic
        ELSE [ok |-> TRUE, value |-> value, suit |-> suit]

----------------------------------------------------------------------------
(* profile_hand *)

\* Vec::sort_by_key(|c| c.value): a stable sort, ascending by value
RECURSIVE InsertByValue(_, _)
InsertByValue(sorted, c) ==
    IF sorted = <<>> THEN <<c>>
    ELSE IF Head(sorted).value <= c.value
         THEN <<Head(sorted)>> \o InsertByValue(Tail(sorted), c)
         ELSE <<c>> \o sorted

RECURSIVE SortByValue(_)
SortByValue(cards) ==
    IF cards = <<>> THEN <<>>
    ELSE InsertByValue(SortByValue(SubSeq(cards, 1, Len(cards) - 1)), cards[Len(cards)])

\* of_a_kinds.entry(k).and_modify(|v| *v += 1).or_insert(2)
EntryBump(of_a_kinds, k) ==
    IF k \in DOMAIN of_a_kinds
    THEN [of_a_kinds EXCEPT ![k] = @ + 1]
    ELSE [x \in (DOMAIN of_a_kinds) \cup {k} |-> IF x = k THEN 2 ELSE of_a_kinds[x]]

\* one pass of the for loop of profile_hand over cards[i..]; st holds the
\* locals prev_value, suits, of_a_kinds and is_straight.  The card values the
\* model hands in stay below 255, so prev_value + 1 never overflows a u8.
RECURSIVE ProfileLoop(_, _, _)
ProfileLoop(cards, i, st) ==
    IF i > Len(cards) THEN st
    ELSE
    LET c == cards[i]
        kinds == IF st.prev_value = c.value
                 THEN EntryBump(st.of_a_kinds, c.value)
                 ELSE st.of_a_kinds
        broken == /\ st.prev_value + 1 # c.value
                  /\ st.prev_value # 0
                  /\ st.prev_value # 5
                  /\ c.value # ACE_VALUE
    IN  ProfileLoop(cards, i + 1,
            [prev_value  |-> c.value,
             suits       |-> st.suits \cup {c.suit},
             of_a_kinds  |-> kinds,
             is_straight |-> IF broken THEN FALSE ELSE st.is_straight])

\* profile_hand sorts the cards in place and returns (suits, of_a_kinds,
\* is_straight); the sorted cards are returned with the profile.
profile_hand(cards) ==
    LET sorted == SortByValue(cards)
        st == ProfileLoop(sorted, 1,
                  [prev_value |-> 0, suits |-> {}, of_a_kinds |-> <<>>,
                   is_straight |-> TRUE])
    IN  [cards |-> sorted, suits |-> st.suits, of_a_kinds |-> st.of_a_kinds,
         is_straight |-> st.is_straight]

----------------------------------------------------------------------------
(* The tie breakers.  Each takes the tie_breaker vector built so far and   *)
(* returns it with the pushed values appended; iter is the order in which  *)
(* the HashMap of_a_kinds yields its keys.                                 *)

\* the largest element of a non-empty set of numbers
SetMax(S) == CHOOSE x \in S : \A y \in S : y <= x

\* keys.sort(); keys.reverse()
RECURSIVE SortedDescending(_)
SortedDescending(S) ==
    IF S = {} THEN <<>>
    ELSE <<SetMax(S)>> \o SortedDescending(S \ {SetMax(S)})

\* every order in which a HashMap may yield its keys
IterOrders(of_a_kinds) ==
    LET keys == DOMAIN of_a_kinds
        n == Cardinality(keys)
    IN  {s \in [1..n -> keys] : \A i, j \in 1..n : i # j => s[i] # s[j]}

two_pair_tie_breaker(of_a_kinds, tie_breaker, card_values) ==
    tie_breaker \o SortedDescending(DOMAIN of_a_kinds) \o card_values

\* the for loop of full_house_tie_breaker over iter[i..]
RECURSIVE FullHouseLoop(_, _, _, _)
FullHouseLoop(of_a_kinds, iter, i, acc) ==
    IF i > Len(iter) THEN acc
    ELSE
    LET value == iter[i]
        count == of_a_kinds[value]
    IN  FullHouseLoop(of_a_kinds, iter, i + 1,
            [triple_value |-> IF count = 3 THEN value ELSE acc.triple_value,
             pair_value   |-> IF count = 2 THEN value ELSE acc.pair_value])

\* full_house_tie_breaker taking the triple and the pair in the order the
\* map yields them
FullHouseTieBreakerInIterOrder(of_a_kinds, tie_breaker, iter) ==
    tie_breaker \o <<iter[1], iter[2]>>

full_house_tie_breaker(of_a_kinds, tie_breaker, iter) ==
    LET acc == FullHouseLoop(of_a_kinds, iter, 1,
                   [triple_value |-> 0, pair_value |-> 0])
    IN  tie_breaker \o <<acc.triple_value, acc.pair_value>>

\* of_a_kind_tie_breaker with its two pushes swapped: the card values first
OfAKindTieBreakerValuesFirst(of_a_kinds, tie_breaker, card_values, iter) ==
    tie_breaker \o card_values \o <<iter[1]>>

\* of_a_kinds.keys().next().unwrap() is the first key the map yields; the
\* callers reach this with a non-empty map only (see determine_hand_type)
of_a_kind_tie_breaker(of_a_kinds, tie_breaker, card_values, iter) ==
    tie_breaker \o <<iter[1]>> \o card_values

\* a panic of straight_tie_breaker: cards.last().unwrap() on no cards, or
\* cards[3] on fewer than four
TieBreakerPanic == [ok |-> FALSE, tie_breaker |-> <<>>]

\* straight_tie_breaker without its low-ace branch
StraightTieBreakerNoLowAce(cards, tie_breaker) ==
    IF cards = <<>> THEN TieBreakerPanic
    ELSE [ok |-> TRUE, tie_breaker |-> Append(tie_breaker, cards[Len(cards)].value)]

straight_tie_breaker(cards, tie_breaker) ==
    IF cards = <<>> THEN TieBreakerPanic
    ELSE
    LET last == cards[Len(cards)].value
    IN  IF last = ACE_VALUE
        THEN IF Len(cards) < 4 THEN TieBreakerPanic
             ELSE IF cards[4].value = 5
                  THEN [ok |-> TRUE, tie_breaker |-> Append(tie_breaker, cards[4].value)]
                  ELSE [ok |-> TRUE, tie_breaker |-> Append(tie_breaker, last)]
        ELSE [ok |-> TRUE, tie_breaker |-> Append(tie_breaker, last)]

----------------------------------------------------------------------------
(* determine_hand_type *)

\* cards.iter().rev().map(|c| c.value).collect()
RECURSIVE ReversedValues(_)
ReversedValues(cards) ==
    IF cards = <<>> THEN <<>>
    ELSE <<cards[Len(cards)].value>> \o ReversedValues(SubSeq(cards, 1, Len(cards) - 1))

\* of_a_kinds.values().max().unwrap_or(&0)
MaxOfAKindCount(of_a_kinds) ==
    IF DOMAIN of_a_kinds = {} THEN 0
    ELSE SetMax({of_a_kinds[k] : k \in DOMAIN of_a_kinds})

\* a panic of determine_hand_type (one of straight_tie_breaker)
TypePanic == [ok |-> FALSE, tie_breaker |-> <<>>, hand_type |-> HighCard]

Typed(tie_breaker, hand_type) ==
    [ok |-> TRUE, tie_breaker |-> tie_breaker, hand_type |-> hand_type]

StraightTyped(cards, hand_type) ==
    LET tb == straight_tie_breaker(cards, <<>>)
    IN  IF tb.ok THEN Typed(tb.tie_breaker, hand_type) ELSE TypePanic

determine_hand_type(profile, cards, iter) ==
    LET suits == profile.suits
        of_a_kinds == profile.of_a_kinds
        is_straight == profile.is_straight
        max_of_a_kind_count == MaxOfAKindCount(of_a_kinds)
        n_kinds == Cardinality(DOMAIN of_a_kinds)
        tie_breaker == <<>>
        card_values == ReversedValues(cards)
    IN  IF is_straight /\ Cardinality(suits) = 1
            THEN StraightTyped(cards, StraightFlush)
        ELSE IF max_of_a_kind_count = 4
            THEN Typed(of_a_kind_tie_breaker(of_a_kinds, tie_breaker, card_values, iter),
                       FourOfAKind)
        ELSE IF max_of_a_kind_count = 3 /\ n_kinds = 2
            THEN Typed(full_house_tie_breaker(of_a_kinds, tie_breaker, iter), FullHouse)
        ELSE IF Cardinality(suits) = 1
            THEN Typed(tie_breaker \o card_values, Flush)
        ELSE IF is_straight
            THEN StraightTyped(cards, Straight)
        ELSE IF max_of_a_kind_count = 3
            THEN Typed(of_a_kind_tie_breaker(of_a_kinds, tie_breaker, card_values, iter),
                       ThreeOfAKind)
        ELSE IF n_kinds = 2
            THEN Typed(two_pair_tie_breaker(of_a_kinds, tie_breaker, card_values), TwoPair)
        ELSE IF n_kinds = 1
            THEN Typed(of_a_kind_tie_breaker(of_a_kinds, tie_breaker, card_values, iter),
                       OnePair)
        ELSE Typed(tie_breaker \o card_values, HighCard)

----------------------------------------------------------------------------
(* parse_hand *)

\* a panic of parse_hand
HandPanic(input_string) ==
    [ok |-> FALSE, hand_type |-> HighCard, tie_breaker |-> <<>>,
     input_string |-> input_string]

\* hand_str.split_whitespace().map(|card| parse_card(card)).collect()
RECURSIVE MapParseCard(_)
MapParseCard(tokens) ==
    IF tokens = <<>> THEN <<>>
    ELSE <<parse_card(Head(tokens))>> \o MapParseCard(Tail(tokens))

ParsedCards(hand_str) == MapParseCard(SplitWhitespace(hand_str.chars))

CardsOk(cards) == \A i \in 1..Len(cards) : cards[i].ok

\* the orders in which of_a_kinds of this hand may be iterated (one empty
\* order when parse_card panics before the map exists)
HandIterOrders(hand_str) ==
    LET cards == ParsedCards(hand_str)
    IN  IF CardsOk(cards) THEN IterOrders(profile_hand(cards).of_a_kinds)
        ELSE {<<>>}

\* parse_hand, with the iteration order iter of this call's of_a_kinds
parse_hand(hand_str, iter) ==
    LET cards == ParsedCards(hand_str)
    IN  IF ~CardsOk(cards) THEN HandPanic(hand_str)
        ELSE
        LET profile == profile_hand(cards)
            typed == determine_hand_type(profile, profile.cards, iter)
        IN  IF ~typed.ok THEN HandPanic(hand_str)
            ELSE [ok |-> TRUE, hand_type |-> typed.hand_type,
                  tie_breaker |-> typed.tie_breaker, input_string |-> hand_str]

----------------------------------------------------------------------------
(* winning_hands *)

\* HandCmp with the fields of Hand declared in another order: tie_breaker
\* before hand_type
HandCmpTieBreakerFirst(a, b) ==
    IF VecCmp(a.tie_breaker, b.tie_breaker) # 0
    THEN VecCmp(a.tie_breaker, b.tie_breaker)
    ELSE IF a.hand_type # b.hand_type THEN IntCmp(a.hand_type, b.hand_type)
    ELSE StrCmp(a.input_string.chars, b.input_string.chars)

\* derive(Ord) for Hand: hand_type, then tie_breaker, then input_string
HandCmp(a, b) ==
    IF a.hand_type # b.hand_type THEN IntCmp(a.hand_type, b.hand_type)
    ELSE IF VecCmp(a.tie_breaker, b.tie_breaker) # 0
         THEN VecCmp(a.tie_breaker, b.tie_breaker)
    ELSE StrCmp(a.input_string.chars, b.input_string.chars)

\* Vec::sort(): a stable sort, ascending by Ord
RECURSIVE InsertHand(_, _)
InsertHand(sorted, h) ==
    IF sorted = <<>> THEN <<h>>
    ELSE IF HandCmp(Head(sorted), h) <= 0
         THEN <<Head(sorted)>> \o InsertHand(Tail(sorted), h)
         ELSE <<h>> \o sorted

RECURSIVE SortHands(_)
SortHands(hs) ==
    IF hs = <<>> THEN <<>>
    ELSE InsertHand(SortHands(SubSeq(hs, 1, Len(hs) - 1)), hs[Len(hs)])

\* Vec::reverse()
RECURSIVE Reverse(_)
Reverse(s) == IF s = <<>> THEN <<>> ELSE Append(Reverse(Tail(s)), Head(s))

\* TakeWinners with a closure that compares hand_type alone
RECURSIVE TakeWinnersTypeOnly(_, _, _)
TakeWinnersTypeOnly(hs, winning_hand_type, winning_tie_breaker) ==
    IF hs = <<>> THEN <<>>
    ELSE IF winning_hand_type = Head(hs).hand_type
         THEN <<Head(hs)>> \o TakeWinnersTypeOnly(Tail(hs), winning_hand_type,
                                                  winning_tie_breaker)
         ELSE <<>>

\* parsed_hands.drain(..).take_while(|h| ...): the longest prefix of hands with
\* the winning hand_type and tie_breaker
RECURSIVE TakeWinners(_, _, _)
TakeWinners(hs, winning_hand_type, winning_tie_breaker) ==
    IF hs = <<>> THEN <<>>
    ELSE IF winning_hand_type = Head(hs).hand_type
            /\ winning_tie_breaker = Head(hs).tie_breaker
         THEN <<Head(hs)>> \o TakeWinners(Tail(hs), winning_hand_type, winning_tie_breaker)
         ELSE <<>>

\* the results of winning_hands: a panic, None, or Some(winning_strings)
Panicked == [kind |-> "panic", winning_strings |-> <<>>]
None == [kind |-> "None", winning_strings |-> <<>>]
Some(winning_strings) == [kind |-> "Some", winning_strings |-> winning_strings]

\* hands.iter().map(|hand| parse_hand(hand)).collect()
RECURSIVE MapParseHand(_, _)
MapParseHand(hands, iters) ==
    IF hands = <<>> THEN <<>>
    ELSE <<parse_hand(Head(hands), Head(iters))>> \o MapParseHand(Tail(hands), Tail(iters))

\* winners.iter().map(|h| h.input_string).collect()
RECURSIVE InputStrings(_)
InputStrings(winners) ==
    IF winners = <<>> THEN <<>>
    ELSE <<Head(winners).input_string>> \o InputStrings(Tail(winners))

\* winning_hands with the winners taken before the match on first(): an
\* empty slice gives Some of no winners
WinningHandsNoEarlyReturn(hands, iters) ==
    LET collected == MapParseHand(hands, iters)
    IN  IF \E i \in 1..Len(collected) : ~collected[i].ok THEN Panicked
        ELSE
        LET parsed_hands == Reverse(SortHands(collected))
        IN  IF parsed_hands = <<>> THEN Some(<<>>)
            ELSE Some(InputStrings(TakeWinners(parsed_hands, parsed_hands[1].hand_type,
                                               parsed_hands[1].tie_breaker)))

\* winning_hands; iters[i] is the iteration order of of_a_kinds in the i-th
\* call of parse_hand
winning_hands(hands, iters) ==
    LET collected == MapParseHand(hands, iters)
    IN  IF \E i \in 1..Len(collected) : ~collected[i].ok THEN Panicked
        ELSE
        LET parsed_hands == Reverse(SortHands(collected))
        IN  IF parsed_hands = <<>> THEN None
            ELSE
            LET winners == TakeWinners(parsed_hands, parsed_hands[1].hand_type,
                                       parsed_hands[1].tie_breaker)
            IN  Some(InputStrings(winners))

\* every choice of one iteration order per hand
RECURSIVE HandsIterOrders(_)
HandsIterOrders(hands) ==
    IF hands = <<>> THEN {<<>>}
    ELSE {<<iter>> \o rest : iter \in HandIterOrders(Head(hands)),
                             rest \in HandsIterOrders(Tail(hands))}

----------------------------------------------------------------------------
(* Inputs *)

\* a hand string from its tokens, one space between two tokens
RECURSIVE Join(_)
Join(tokens) ==
    IF tokens = <<>> THEN <<>>
    ELSE IF Len(tokens) = 1 THEN tokens[1]
    ELSE tokens[1] \o <<" ">> \o Join(Tail(tokens))

\* the rank token of a rank 2..14 and the suit letter of a suit
RankToken(v) ==
    CASE v = 10 -> <<"1", "0">>
      [] v = JACK_VALUE -> <<"J">>
      [] v = QUEEN_VALUE -> <<"Q">>
      [] v = KING_VALUE -> <<"K">>
      [] v = ACE_VALUE -> <<"A">>
      [] OTHER -> <<CHOOSE d \in Digits : DigitValue(d) = v>>

SuitLetter(s) ==
    CASE s = "Spade" -> "S" [] s = "Club" -> "C" [] s = "Heart" -> "H" [] s = "Diamond" -> "D"

CardToken(v, s) == Append(RankToken(v), SuitLetter(s))

\* the card tokens of the input format: a rank token 2..10, J, Q, K, A and
\* one suit letter
ValidTokens == {CardToken(v, s) : v \in 2..ACE_VALUE, s \in Suit}

\* a hand string of the input format: exactly five valid card tokens, no
\* card twice
ValidHandStr(chars) ==
    LET tokens == SplitWhitespace(chars)
    IN  /\ Len(tokens) = 5
        /\ \A i \in 1..5 : tokens[i] \in ValidTokens
        /\ \A i, j \in 1..5 : i # j => tokens[i] # tokens[j]

\* the rank sequences r1 <= ... <= rn over lo..hi
RECURSIVE NonDecreasing(_, _, _)
NonDecreasing(n, lo, hi) ==
    IF n = 0 THEN {<<>>}
    ELSE UNION {{<<v>> \o r : r \in NonDecreasing(n - 1, v, hi)} : v \in lo..hi}

\* the ranks of five cards of a deck, ascending: no rank five times
SortedRanks(lo, hi) == {r \in NonDecreasing(5, lo, hi) : r[1] # r[5]}

\* the suits given to the five cards in ascending rank order: one suit, or
\* the four suits in turn
SuitPatterns ==
    { <<"Spade", "Spade", "Spade", "Spade", "Spade">>,
      <<"Heart", "Diamond", "Club", "Spade", "Heart">> }

\* the orders in which the five cards are written in the string
InputOrders == { <<1, 2, 3, 4, 5>>, <<3, 5, 1, 4, 2>> }

\* the valid hands over ranks lo..hi, as strings
HandStrs(lo, hi, patterns, orders) ==
    {Join([i \in 1..5 |-> CardToken(r[o[i]], p[o[i]])]) :
        r \in SortedRanks(lo, hi), p \in patterns, o \in orders}

\* every valid hand handed to parse_hand: all rank combinations of a deck
ParseHandInputs ==
    {h \in HandStrs(2, ACE_VALUE, SuitPatterns, InputOrders) : ValidHandStr(h)}

\* the hands compared pairwise
CompareInputs ==
    {h \in HandStrs(2, MaxCmpRank, SuitPatterns, {<<1, 2, 3, 4, 5>>}) : ValidHandStr(h)}

\* card tokens handed to parse_card: every string of n <= MaxTokenLen of
\* these characters
TokenAlphabet == {"0", "1", "2", "9", "A", "J", "X", "S", "H", "+"}

Tokens(n) == [1..n -> TokenAlphabet]

\* the hand strings handed to winning_hands, in slices of at most MaxHands:
\* eight valid hands, then five malformed ones
HandPool ==
    { Join(<< <<"4","S">>, <<"5","S">>, <<"6","S">>, <<"8","D">>, <<"J","H">> >>),
      Join(<< <<"2","S">>, <<"4","C">>, <<"7","S">>, <<"9","H">>, <<"1","0","H">> >>),
      Join(<< <<"4","H">>, <<"4","S">>, <<"4","D">>, <<"9","C">>, <<"9","D">> >>),
      Join(<< <<"4","D">>, <<"4","C">>, <<"4","S">>, <<"9","H">>, <<"9","S">> >>),
      Join(<< <<"2","H">>, <<"3","D">>, <<"4","C">>, <<"5","S">>, <<"A","H">> >>),
      Join(<< <<"3","H">>, <<"4","D">>, <<"5","C">>, <<"6","S">>, <<"7","H">> >>),
      Join(<< <<"2","H">>, <<"5","H">>, <<"7","H">>, <<"9","H">>, <<"J","H">> >>),
      Join(<< <<"2","S">>, <<"2","H">>, <<"5","D">>, <<"9","C">>, <<"K","D">> >>),
      Join(<< <<"2","S">>, <<"3","S">> >>),
      <<>>,
      Join(<< <<"2","S">>, <<"2","H">>, <<"2","D">>, <<"2","C">>, <<"3","S">>, <<"3","H">> >>),
      Join(<< <<"1","S">>, <<"3","D">>, <<"4","C">>, <<"5","S">>, <<"6","H">> >>),
      Join(<< <<"2","S">>, <<"3","D">>, <<"4","C">>, <<"5","H">>, <<"6","X">> >>) }

\* the slice of the strings texts[i..]; the i-th &str has ptr i
RECURSIVE SliceFrom(_, _)
SliceFrom(texts, i) ==
    IF i > Len(texts) THEN <<>>
    ELSE <<[ptr |-> i, chars |-> texts[i]]>> \o SliceFrom(texts, i + 1)

----------------------------------------------------------------------------
(* Specifications *)

\* values of the variables a specification does not use
NoStr == [ptr |-> 0, chars |-> <<>>]
NoHand == HandPanic(NoStr)

\* Spec: one call of winning_hands on a slice of the pool
Init ==
    /\ pc = "start"
    /\ \E n \in 0..MaxHands : \E texts \in [1..n -> HandPool] :
           hands_in = SliceFrom(texts, 1)
    /\ result = None
    /\ tok = <<>> /\ card_out = CardPanic /\ hand_in = NoStr
    /\ iter1 = <<>> /\ iter2 = <<>> /\ parsed = NoHand /\ reparsed = NoHand

WinningHands ==
    /\ pc = "start"
    /\ \E iters \in HandsIterOrders(hands_in) : result' = winning_hands(hands_in, iters)
    /\ pc' = "returned"
    /\ UNCHANGED <<tok, card_out, hand_in, iter1, iter2, parsed, reparsed, hands_in>>

Next == WinningHands

Spec == Init /\ [][Next]_vars

\* SpecCard: one call of parse_card on a token
InitCard ==
    /\ pc = "start"
    /\ \E n \in 0..MaxTokenLen : tok \in Tokens(n)
    /\ card_out = CardPanic
    /\ hands_in = <<>> /\ result = None /\ hand_in = NoStr
    /\ iter1 = <<>> /\ iter2 = <<>> /\ parsed = NoHand /\ reparsed = NoHand

ParseCard ==
    /\ pc = "start"
    /\ card_out' = parse_card(tok)
    /\ pc' = "returned"
    /\ UNCHANGED <<tok, hand_in, iter1, iter2, parsed, reparsed, hands_in, result>>

NextCard == ParseCard

SpecCard == InitCard /\ [][NextCard]_vars

\* SpecHand: parse_hand on a valid hand, then parse_hand on the same string
\* again, each call with an iteration order of its own
InitHand ==
    /\ pc = "start"
    /\ hand_in \in {[ptr |-> 1, chars |-> h] : h \in ParseHandInputs}
    /\ iter1 = <<>> /\ iter2 = <<>> /\ parsed = NoHand /\ reparsed = NoHand
    /\ tok = <<>> /\ card_out = CardPanic /\ hands_in = <<>> /\ result = None

ParseHand ==
    /\ pc = "start"
    /\ \E iter \in HandIterOrders(hand_in) :
           /\ iter1' = iter
           /\ parsed' = parse_hand(hand_in, iter)
    /\ pc' = "parsed"
    /\ UNCHANGED <<tok, card_out, hand_in, iter2, reparsed, hands_in, result>>

ReparseHand ==
    /\ pc = "parsed"
    /\ \E iter \in HandIterOrders(hand_in) :
           /\ iter2' = iter
           /\ reparsed' = parse_hand(hand_in, iter)
    /\ pc' = "reparsed"
    /\ UNCHANGED <<tok, card_out, hand_in, iter1, parsed, hands_in, result>>

NextHand == ParseHand \/ ReparseHand

SpecHand == InitHand /\ [][NextHand]_vars

\* SpecCompare: parse_hand on each of two valid hands, whose tie_breakers
\* are then compared
InitCompare ==
    /\ pc = "start"
    /\ \E a \in CompareInputs, b \in CompareInputs : hands_in = SliceFrom(<<a, b>>, 1)
    /\ parsed = <<NoHand, NoHand>>
    /\ iter1 = <<>> /\ iter2 = <<>> /\ reparsed = NoHand
    /\ tok = <<>> /\ card_out = CardPanic /\ hand_in = NoStr /\ result = None

ParseBoth ==
    /\ pc = "start"
    /\ \E iters \in HandsIterOrders(hands_in) :
           parsed' = MapParseHand(hands_in, iters)
    /\ pc' = "parsed"
    /\ UNCHANGED <<tok, card_out, hand_in, iter1, iter2, reparsed, hands_in, result>>

NextCompare == ParseBoth

SpecCompare == InitCompare /\ [][NextCompare]_vars

----------------------------------------------------------------------------
(* What the specification says of a valid hand string, read off its tokens *)

\* the rank a valid card token stands for (numeric 2..10, J=11, Q=12, K=13, A=14)
TokenRank(token) ==
    IF Len(token) = 3 THEN 10
    ELSE CASE token[1] = "J" -> 11
           [] token[1] = "Q" -> 12
           [] token[1] = "K" -> 13
           [] token[1] = "A" -> 14
           [] OTHER -> DigitValue(token[1])

\* the ranks of the cards of a hand, in the order they are written
RECURSIVE TokenRanks(_)
TokenRanks(tokens) ==
    IF tokens = <<>> THEN <<>>
    ELSE <<TokenRank(Head(tokens))>> \o TokenRanks(Tail(tokens))

CardRanks(chars) == TokenRanks(SplitWhitespace(chars))

\* the ranks present in the hand
RanksOf(chars) ==
    LET ranks == CardRanks(chars)
    IN  {ranks[i] : i \in 1..Len(ranks)}

\* the ranks held exactly n times
RanksHeld(chars, n) ==
    LET ranks == CardRanks(chars)
    IN  {v \in {ranks[i] : i \in 1..Len(ranks)} :
            Cardinality({i \in 1..Len(ranks) : ranks[i] = v}) = n}

IsWheel(chars) == RanksOf(chars) = {2, 3, 4, 5, ACE_VALUE}

\* five consecutive ranks, or the wheel
IsTrueStraight(chars) ==
    LET present == RanksOf(chars)
    IN  \/ \E lo \in 2..10 : present = lo..(lo + 4)
        \/ present = {2, 3, 4, 5, ACE_VALUE}

OneSuit(chars) ==
    LET tokens == SplitWhitespace(chars)
    IN  \A i, j \in 1..Len(tokens) : tokens[i][Len(tokens[i])] = tokens[j][Len(tokens[j])]

\* the first-match decision order of the categories
DecisionOrderCategory(chars) ==
    IF IsTrueStraight(chars) /\ OneSuit(chars) THEN StraightFlush
    ELSE IF RanksHeld(chars, 4) # {} THEN FourOfAKind
    ELSE IF RanksHeld(chars, 3) # {} /\ Cardinality(RanksOf(chars)) = 2 THEN FullHouse
    ELSE IF OneSuit(chars) THEN Flush
    ELSE IF IsTrueStraight(chars) THEN Straight
    ELSE IF RanksHeld(chars, 3) # {} THEN ThreeOfAKind
    ELSE IF Cardinality(RanksHeld(chars, 2)) = 2 THEN TwoPair
    ELSE IF Cardinality(RanksHeld(chars, 2)) = 1 THEN OnePair
    ELSE HighCard

\* the high card of a straight: 5 for the wheel, else the highest rank
StraightHighCard(chars) == IF IsWheel(chars) THEN 5 ELSE SetMax(RanksOf(chars))

\* the key of a OnePair, TwoPair, ThreeOfAKind or FourOfAKind hand: the
\* grouped ranks, highest first, then the kickers descending
GroupedKey(chars) ==
    SortedDescending(RanksOf(chars) \ RanksHeld(chars, 1))
        \o SortedDescending(RanksHeld(chars, 1))

GroupedCategories == {OnePair, TwoPair, ThreeOfAKind, FourOfAKind}

\* every string of the slice is a valid hand
AllValid == \A i \in 1..Len(hands_in) : ValidHandStr(hands_in[i].chars)

\* the Hands parse_hand gives the strings hands[i..] (for a valid hand the
\* iteration order makes no difference: C9)
RECURSIVE ParsedFrom(_, _)
ParsedFrom(hands, i) ==
    IF i > Len(hands) THEN <<>>
    ELSE <<parse_hand(hands[i], CHOOSE iter \in HandIterOrders(hands[i]) : TRUE)>>
             \o ParsedFrom(hands, i + 1)

\* the Hands of the slice as parse_hand gives them
ParsedSlice == ParsedFrom(hands_in, 1)

\* the (category, tie_breaker) pairs compared: -1, 0 or 1
PairCmp(a, b) ==
    IF a.hand_type # b.hand_type THEN IntCmp(a.hand_type, b.hand_type)
    ELSE VecCmp(a.tie_breaker, b.tie_breaker)

\* the i-th of the Hands ps holds their maximum pair
HoldsMaximum(ps, i) == \A j \in 1..Len(ps) : PairCmp(ps[j], ps[i]) <= 0

\* how often the reference to the i-th string is returned
TimesReturned(i) ==
    Cardinality({k \in 1..Len(result.winning_strings) : result.winning_strings[k].ptr = i})

----------------------------------------------------------------------------
(* Claims *)

\* C1: for a non-empty slice of valid hands winning_hands returns Some of
\* exactly the input entries holding the maximum (category, tie_breaker)
\* pair: each position holding the maximum once, with its own text, and no
\* position holding a smaller pair.
C1_WinnersAreTheMaxima ==
    (pc = "returned" /\ hands_in # <<>> /\ AllValid) =>
        LET ps == ParsedSlice
        IN  /\ result.kind = "Some"
            /\ \A i \in 1..Len(hands_in) :
                   TimesReturned(i) = IF HoldsMaximum(ps, i) THEN 1 ELSE 0
            /\ \A k \in 1..Len(result.winning_strings) :
                   /\ result.winning_strings[k].ptr \in 1..Len(hands_in)
                   /\ result.winning_strings[k] = hands_in[result.winning_strings[k].ptr]

\* C1 witness: three valid hands, two of them tied for the win and one of
\* their category beaten on the tie_breaker
C1_Witness ==
    /\ pc = "returned" /\ AllValid /\ Len(hands_in) = 3
    /\ result.kind = "Some" /\ Len(result.winning_strings) = 2
    /\ \E i \in 1..3 :
           /\ ~HoldsMaximum(ParsedSlice, i)
           /\ ParsedSlice[i].hand_type
                  = ParsedSlice[result.winning_strings[1].ptr].hand_type

\* C2 (as claimed): parse_hand gives every valid hand the category of the
\* first-match decision order, a straight being five consecutive ranks or
\* 2,3,4,5,14 and nothing else.
C2_CategoryIsDecisionOrder ==
    (pc = "parsed") =>
        /\ parsed.ok
        /\ parsed.hand_type = DecisionOrderCategory(hand_in.chars)

\* C3 (as claimed): the winners of a slice of valid hands are returned in
\* the order of their positions in the slice.
C3_WinnersInInputOrder ==
    (pc = "returned" /\ AllValid /\ result.kind = "Some") =>
        \A k \in 1..(Len(result.winning_strings) - 1) :
            result.winning_strings[k].ptr < result.winning_strings[k + 1].ptr

\* the six-high straight 2,3,4,5,6 of one suit, or of mixed suits
SixHighStraight(one_suit) ==
    Join([i \in 1..5 |->
            CardToken(i + 1, IF one_suit THEN "Club"
                             ELSE <<"Diamond", "Club", "Spade", "Heart", "Diamond">>[i])])

\* C4: a valid hand of five consecutive ranks or of 2,3,4,5,14 is classified
\* Straight or StraightFlush (StraightFlush exactly when it has one suit) and
\* its tie_breaker is the one high card: 5 for the wheel, else the highest
\* rank; so the wheel's key is below the key of every other straight, and
\* winning_hands on a wheel and the six-high straight of its category
\* returns the six-high straight alone.
C4_StraightKeyIsHighCard ==
    (pc = "parsed" /\ IsTrueStraight(hand_in.chars)) =>
        /\ parsed.ok
        /\ parsed.hand_type = IF OneSuit(hand_in.chars) THEN StraightFlush ELSE Straight
        /\ parsed.tie_breaker = <<StraightHighCard(hand_in.chars)>>
        /\ ~IsWheel(hand_in.chars) => VecCmp(parsed.tie_breaker, <<5>>) > 0
        /\ IsWheel(hand_in.chars) =>
               LET six == [ptr |-> 2, chars |-> SixHighStraight(OneSuit(hand_in.chars))]
               IN  /\ VecCmp(parsed.tie_breaker, <<6>>) < 0
                   /\ winning_hands(<<hand_in, six>>, <<iter1, <<>> >>) = Some(<<six>>)

\* C4 witness: a wheel of one suit parsed to StraightFlush with key <<5>>
C4_Witness ==
    /\ pc = "parsed" /\ IsWheel(hand_in.chars) /\ OneSuit(hand_in.chars)
    /\ parsed.hand_type = StraightFlush /\ parsed.tie_breaker = <<5>>

\* C5: in the order winning_hands sorts by, a hand of a weaker category is
\* below every hand of a stronger category whatever the tie_breakers, and no
\* returned winner has a category weaker than any hand of the slice.
C5_CategoryDominates ==
    (pc = "returned" /\ AllValid) =>
        LET ps == ParsedSlice
        IN  /\ \A i, j \in 1..Len(hands_in) :
                   ps[i].hand_type < ps[j].hand_type => HandCmp(ps[i], ps[j]) < 0
            /\ \A k \in 1..Len(result.winning_strings), j \in 1..Len(hands_in) :
                   ps[j].hand_type <= ps[result.winning_strings[k].ptr].hand_type

\* C5 witness: a full house wins over a flush whose tie_breaker is the greater
C5_Witness ==
    /\ pc = "returned" /\ AllValid /\ result.kind = "Some"
    /\ \E k \in 1..Len(result.winning_strings), j \in 1..Len(hands_in) :
           LET ps == ParsedSlice
           IN  /\ ps[result.winning_strings[k].ptr].hand_type = FullHouse
               /\ ps[j].hand_type = Flush
               /\ VecCmp(ps[j].tie_breaker,
                         ps[result.winning_strings[k].ptr].tie_breaker) > 0

\* C6 (as claimed): parse_card panics on every token that is not a rank token
\* 2..10, J, Q, K, A followed by one suit letter, so every Card it returns has
\* a value in 2..14.
C6_OnlyValidTokensParse ==
    (pc = "returned") =>
        /\ tok \notin ValidTokens => ~card_out.ok
        /\ card_out.ok => card_out.value \in 2..ACE_VALUE

\* C7 (as claimed): a slice holding a string that does not split into exactly
\* five tokens makes winning_hands fail.
C7_WrongCardCountFails ==
    (pc = "returned"
        /\ \E i \in 1..Len(hands_in) : Len(SplitWhitespace(hands_in[i].chars)) # 5)
        => result.kind = "panic"

\* C8: winning_hands returns None exactly when the slice is empty, and for a
\* slice of one or more valid hands it returns Some of at least one winner.
C8_NoneIffEmpty ==
    (pc = "returned") =>
        /\ result.kind = "None" <=> hands_in = <<>>
        /\ (hands_in # <<>> /\ AllValid) =>
               (result.kind = "Some" /\ Len(result.winning_strings) >= 1)

\* C8 witness: the call on the empty slice has returned None
C8_Witness == pc = "returned" /\ hands_in = <<>> /\ result = None

\* C9: two runs of parse_hand on the same valid hand give the same category
\* and the same tie_breaker, whatever order of_a_kinds is iterated in.
C9_IterationOrderIrrelevant ==
    (pc = "reparsed") =>
        /\ parsed.ok /\ reparsed.ok
        /\ parsed.hand_type = reparsed.hand_type
        /\ parsed.tie_breaker = reparsed.tie_breaker

\* C9 witness: a full house parsed twice, the map iterated in two orders
C9_Witness ==
    /\ pc = "reparsed" /\ iter1 # iter2
    /\ parsed.hand_type = FullHouse /\ reparsed.hand_type = FullHouse

====
